---- MODULE Spec2Model ----
(***************************************************************************)
(* Model of stdm/ui/forms/widgets.py: the column widget registry, the      *)
(* per-type widget factories with their value formatting and row caches,   *)
(* and the EntityValueFormatter facade.                                    *)
(***************************************************************************)
EXTENDS Integers, Sequences, FiniteSets, TLC

\* The field names of the records of the model; every record below lists its
\* fields in this order, which is the order TLC sorts a record's fields in.
FieldOrder ==
    [k |-> 1, i |-> 2, s |-> 3, l |-> 4, key |-> 5, shape |-> 6,
     id |-> 7, op |-> 8, name |-> 9, code |-> 10, TYPE_INFO |-> 11, cls |-> 12,
     value |-> 13, column |-> 14, cache |-> 15, type_info |-> 16, ret |-> 17, c |-> 18,
     kind |-> 19, val |-> 20, objectName |-> 21, minimum |-> 22, maximum |-> 23, ref |-> 24,
     suffix |-> 25, items |-> 26, widget |-> 27, columns |-> 28, out |-> 29, inst |-> 30,
     exc |-> 31, bulk |-> 32, lookups |-> 33, calls |-> 34, cols |-> 35, heap |-> 36,
     results |-> 37, delegated |-> 38, before |-> 39, cached |-> 40, found |-> 41, table |-> 42]

VARIABLES
    registered_factories, \* ColumnWidgetRegistry.registered_factories (OrderedDict)
    reg_log,              \* history: the classes that called register(), in order
    db,                   \* the referenced tables: table name -> set of row ids
    entity,               \* EntityValueFormatter.entity ("None" or the entity name)
    _registered_columns,  \* EntityValueFormatter._registered_columns: name -> handler ref
    heap,                 \* the factory instances constructed so far, by reference
    last                  \* history: the last call, its arguments, outcome and call-outs

vars == <<registered_factories, reg_log, db, entity, _registered_columns, heap, last>>

-----------------------------------------------------------------------------
(* Bounds of the model *)

\* row ids of the referenced tables are 1..MaxId
MaxId == 2
\* register() calls made after the twelve of module load
MaxRegisterCalls == 2
\* factory instances constructed in one behaviour
MaxInstances == 2
\* length of the name list given to register_columns
MaxColumns == 2
\* the longest list of selected rows a multiple-select column is formatted for
MaxSelection == 2

Ids == 1..MaxId

-----------------------------------------------------------------------------
(* Python values.  Every value is a record of the same shape so that any   *)
(* two values can be compared: k is the type, i an integer payload, s a    *)
(* string payload and l a list payload.                                    *)

PyNone == [k |-> "None", i |-> 0, s |-> "", l |-> <<>>]
PyInt(n) == [k |-> "int", i |-> n, s |-> "", l |-> <<>>]
PyFloat(n) == [k |-> "float", i |-> n, s |-> "", l |-> <<>>]
PyBool(b) == [k |-> "bool", i |-> IF b THEN 1 ELSE 0, s |-> "", l |-> <<>>]
PyStr(x) == [k |-> "str", i |-> 0, s |-> x, l |-> <<>>]
PyDate(d) == [k |-> "date", i |-> d, s |-> "", l |-> <<>>]
PyDateTime(d) == [k |-> "datetime", i |-> d, s |-> "", l |-> <<>>]
\* a list of lookup row objects, kept as the list of their .value attributes
PyList(vs) == [k |-> "list", i |-> 0, s |-> "", l |-> vs]

\* The outcome of a call: a returned value or a raised exception.
Return(v) == [kind |-> "return", val |-> v, exc |-> ""]
Raise(e) == [kind |-> "raise", val |-> PyNone, exc |-> e]

Digit(n) == CASE n = 0 -> "0" [] n = 1 -> "1" [] n = 2 -> "2" [] n = 3 -> "3"
              [] n = 4 -> "4" [] n = 5 -> "5" [] n = 6 -> "6" [] n = 7 -> "7"
              [] n = 8 -> "8" [] n = 9 -> "9"

RECURSIVE IntToStr(_)
\* str(n) for an int n
IntToStr(n) ==
    IF n < 0 THEN "-" \o IntToStr(-n)
    ELSE IF n < 10 THEN Digit(n)
    ELSE IntToStr(n \div 10) \o Digit(n % 10)

\* the truth value Python gives a value in `if value:`
Truthy(v) ==
    CASE v.k = "None" -> FALSE
      [] v.k = "str" -> v.s # ""
      [] v.k = "list" -> v.l # <<>>
      [] v.k \in {"int", "float", "bool"} -> v.i # 0
      [] OTHER -> TRUE

\* unicode(value), the base class's formatting
Unicode(v) ==
    CASE v.k = "None" -> "None"
      [] v.k = "str" -> v.s
      [] v.k = "int" -> IntToStr(v.i)
      [] v.k = "float" -> IntToStr(v.i) \o ".0"
      [] v.k = "bool" -> IF v.i = 1 THEN "True" ELSE "False"
      [] v.k = "date" -> "date(" \o IntToStr(v.i) \o ")"
      [] v.k = "datetime" -> "datetime(" \o IntToStr(v.i) \o ")"
      [] OTHER -> "[...]"

\* QCoreApplication.translate(context, text) with no translation installed
Translate(context, text) == text

-----------------------------------------------------------------------------
(* Column type tags and the factory classes *)

\* the TYPE_INFO of the column classes that have a factory in this module
FactoryTags ==
    {"VARCHAR", "TEXT", "DATE", "DATETIME", "INT", "DOUBLE", "PERCENT", "BOOL",
     "FOREIGN_KEY", "ADMIN_SPATIAL_UNIT", "LOOKUP", "MULTIPLE_SELECT"}

\* BaseColumn.TYPE_INFO: imported, and no factory registers for it
BaseColumnTag == "BASE_COLUMN"

\* ColumnWidgetRegistry.COLUMN_TYPE_INFO
NA == "NA"

TypeTags == FactoryTags \cup {BaseColumnTag, NA}

\* "no class": what factory() returns for an unregistered tag
NoneCls == "None"

\* The classes of the module in definition order; each one calls register()
\* right after its class body.
LoadOrder ==
    <<"VarCharWidgetFactory", "TextWidgetFactory", "DateWidgetFactory",
      "DateTimeWidgetFactory", "IntegerWidgetFactory", "DoubleWidgetFactory",
      "PercentWidgetFactory", "BooleanWidgetFactory", "RelatedEntityWidgetFactory",
      "AdministrativeUnitWidgetFactory", "LookupWidgetFactory",
      "MultipleSelectWidgetFactory">>

\* A subclass of VarCharWidgetFactory that does not set COLUMN_TYPE_INFO and
\* so inherits its parent's tag (register is a classmethod any subclass has).
DerivedVarCharFactory == "DerivedVarCharFactory"

\* the classes that can call register(): the base class and its subclasses
Classes ==
    {LoadOrder[n] : n \in 1..Len(LoadOrder)} \cup {"ColumnWidgetRegistry", DerivedVarCharFactory}

\* cls.COLUMN_TYPE_INFO
COLUMN_TYPE_INFO(cls) ==
    CASE cls = "ColumnWidgetRegistry" -> NA
      [] cls = "VarCharWidgetFactory" -> "VARCHAR"
      [] cls = DerivedVarCharFactory -> "VARCHAR"
      [] cls = "TextWidgetFactory" -> "TEXT"
      [] cls = "DateWidgetFactory" -> "DATE"
      [] cls = "DateTimeWidgetFactory" -> "DATETIME"
      [] cls = "IntegerWidgetFactory" -> "INT"
      [] cls = "DoubleWidgetFactory" -> "DOUBLE"
      [] cls = "PercentWidgetFactory" -> "PERCENT"
      [] cls = "BooleanWidgetFactory" -> "BOOL"
      [] cls = "RelatedEntityWidgetFactory" -> "FOREIGN_KEY"
      [] cls = "AdministrativeUnitWidgetFactory" -> "ADMIN_SPATIAL_UNIT"
      [] cls = "LookupWidgetFactory" -> "LOOKUP"
      [] cls = "MultipleSelectWidgetFactory" -> "MULTIPLE_SELECT"

\* cls._TYPE_PREFIX
_TYPE_PREFIX(cls) ==
    CASE cls = "ColumnWidgetRegistry" -> ""
      [] cls \in {"VarCharWidgetFactory", DerivedVarCharFactory} -> "le_"
      [] cls = "TextWidgetFactory" -> "txt_"
      [] cls = "DateWidgetFactory" -> "dt_"
      [] cls = "DateTimeWidgetFactory" -> "dtt_"
      [] cls = "IntegerWidgetFactory" -> "sb_"
      [] cls = "DoubleWidgetFactory" -> "dsb_"
      [] cls = "PercentWidgetFactory" -> "psb_"
      [] cls = "BooleanWidgetFactory" -> "chb_"
      [] cls = "RelatedEntityWidgetFactory" -> "rele_"
      [] cls = "AdministrativeUnitWidgetFactory" -> "aule_"
      [] cls = "LookupWidgetFactory" -> "cbo_"
      [] cls = "MultipleSelectWidgetFactory" -> "mstv_"

\* the class whose format_column_value / __init__ / _create_widget a class uses
\* (the method resolution order of the module's class hierarchy)
FormatOwner(cls) ==
    CASE cls = DerivedVarCharFactory -> "VarCharWidgetFactory"
      [] cls = "TextWidgetFactory" -> "ColumnWidgetRegistry"
      [] cls = "PercentWidgetFactory" -> "DoubleWidgetFactory"
      [] OTHER -> cls

InitOwner(cls) ==
    CASE cls = "RelatedEntityWidgetFactory" -> "RelatedEntityWidgetFactory"
      [] cls = "AdministrativeUnitWidgetFactory" -> "AdministrativeUnitWidgetFactory"
      [] cls \in {"LookupWidgetFactory", "MultipleSelectWidgetFactory"} -> "LookupWidgetFactory"
      [] OTHER -> "ColumnWidgetRegistry"

-----------------------------------------------------------------------------
(* The OrderedDict of the registry: a sequence of [key, value] items in     *)
(* insertion order.                                                         *)

DictHas(d, key) == \E n \in 1..Len(d) : d[n].key = key

\* d.get(key, default)
DictGet(d, key, default) ==
    IF DictHas(d, key)
    THEN d[CHOOSE n \in 1..Len(d) : d[n].key = key].value
    ELSE default

\* d[key] = value: an existing key keeps its place, a new key goes last
DictSet(d, key, value) ==
    IF DictHas(d, key)
    THEN [n \in 1..Len(d) |-> IF d[n].key = key THEN [key |-> key, value |-> value] ELSE d[n]]
    ELSE Append(d, [key |-> key, value |-> value])

\* the mutant of register: the first registration for a tag is kept
registerKeepFirst(d, cls) ==
    IF DictHas(d, COLUMN_TYPE_INFO(cls)) THEN d ELSE DictSet(d, COLUMN_TYPE_INFO(cls), cls)

\* ColumnWidgetRegistry.register (classmethod): the registry after cls.register()
register(d, cls) == DictSet(d, COLUMN_TYPE_INFO(cls), cls)

\* ColumnWidgetRegistry.factory (classmethod)
factory(d, type_info) == DictGet(d, type_info, NoneCls)

RECURSIVE LoadFrom(_, _)
LoadFrom(d, n) ==
    IF n > Len(LoadOrder) THEN d ELSE LoadFrom(register(d, LoadOrder[n]), n + 1)

\* the registry once the module is imported: every factory class has registered
LoadedRegistry == LoadFrom(<<>>, 1)

-----------------------------------------------------------------------------
(* The referenced tables (query/persistence layer) and the columns *)

\* the entities a relational column refers to: the parent entity of a foreign
\* key, the profile's administrative spatial unit, the value list of a lookup
Tables == {"parent", "admin_spatial_unit", "value_list"}

\* "no entity": an entity reference that is not set
NoneRef == "None"

\* the code of row id: rows with an even id have an empty code
RowCode(id) == IF id % 2 = 0 THEN "" ELSE "C" \o IntToStr(id)

\* the row object with the given id of a table (attributes id, name/value, code)
Row(table, id) ==
    [shape |-> "row", id |-> id, name |-> table \o "#" \o IntToStr(id), code |-> RowCode(id)]

\* "no row": the None a single-row query returns when nothing matches
NoRow == [shape |-> "None", id |-> 0, name |-> "", code |-> ""]

\* queryObject().filter().all(): every row of the table
QueryAll(d, table) == {Row(table, id) : id \in d[table]}

\* queryObject().filter(cls.id == value).first(): the row or None
QueryFirst(d, table, value) ==
    IF value.k = "int" /\ value.i \in d[table] THEN Row(table, value.i) ELSE NoRow

\* A column of the entity configuration: its name, the TYPE_INFO of its class,
\* its range and the entity it refers to (relational columns only).
Col(name, type_info, ref) ==
    [name |-> name, TYPE_INFO |-> type_info, minimum |-> 0, maximum |-> 50, ref |-> ref]

\* entity_model(entity, entity_only=True): the mapped class of an entity
\* definition; there is none for an entity that is not set
entity_model(ref) == IF ref = NoneRef THEN Raise("AttributeError") ELSE Return(PyStr(ref))

-----------------------------------------------------------------------------
(* Factory instances: construction and format_column_value *)

NoEntry == [shape |-> "absent", id |-> 0, name |-> "", code |-> ""]

\* [r.name, r.code] / [r.value, r.code]: the two-item list kept in a cache
Pair(r) == [shape |-> "list", id |-> 0, name |-> r.name, code |-> r.code]

EmptyCache == [id \in Ids |-> NoEntry]

\* `value in cache` for a dict keyed by row id
InCache(cache, value) ==
    value.k = "int" /\ value.i \in DOMAIN cache /\ cache[value.i].shape # "absent"

Instance(cls, column, cache) == [cls |-> cls, column |-> column, cache |-> cache]

NoInstance == Instance(NoneCls, Col("", NA, NoneRef), EmptyCache)

\* The outcome of a constructor: the new instance or an exception, with the
\* number of bulk queries it issued.
Built(inst, bulk) == [kind |-> "return", inst |-> inst, exc |-> "", bulk |-> bulk]
Failed(e, bulk) == [kind |-> "raise", inst |-> NoInstance, exc |-> e, bulk |-> bulk]

\* ColumnWidgetRegistry.__init__
BaseInit(cls, column) == Built(Instance(cls, column, EmptyCache), 0)

\* a constructor that goes on without a parent entity: it builds the instance
\* with an empty cache
RelatedEntityInitNoCheck(cls, column, d) ==
    IF column.ref = NoneRef
    THEN Built(Instance(cls, column, EmptyCache), 0)
    ELSE Built(Instance(cls, column,
                 [id \in Ids |-> IF id \in d[column.ref] THEN Row(column.ref, id) ELSE NoEntry]), 1)

\* RelatedEntityWidgetFactory.__init__
RelatedEntityInit(cls, column, d) ==
    IF column.ref = NoneRef
    THEN Failed("WidgetException", 0)
    ELSE IF entity_model(column.ref).kind = "raise"
    THEN Failed(entity_model(column.ref).exc, 0)
    ELSE Built(Instance(cls, column,
                 [id \in Ids |-> IF id \in d[column.ref] THEN Row(column.ref, id) ELSE NoEntry]), 1)

\* AdministrativeUnitWidgetFactory.__init__
AdministrativeUnitInit(cls, column, d) ==
    IF entity_model(column.ref).kind = "raise"
    THEN Failed(entity_model(column.ref).exc, 0)
    ELSE Built(Instance(cls, column,
                 [id \in Ids |-> IF id \in d[column.ref] THEN Pair(Row(column.ref, id)) ELSE NoEntry]), 1)

\* LookupWidgetFactory.__init__ (MultipleSelectWidgetFactory inherits it)
LookupInit(cls, column, d) ==
    IF entity_model(column.ref).kind = "raise"
    THEN Failed(entity_model(column.ref).exc, 0)
    ELSE Built(Instance(cls, column,
                 [id \in Ids |-> IF id \in d[column.ref] THEN Pair(Row(column.ref, id)) ELSE NoEntry]), 1)

\* cls(column): the constructor the class resolves to
Construct(cls, column, d) ==
    CASE InitOwner(cls) = "RelatedEntityWidgetFactory" -> RelatedEntityInit(cls, column, d)
      [] InitOwner(cls) = "AdministrativeUnitWidgetFactory" -> AdministrativeUnitInit(cls, column, d)
      [] InitOwner(cls) = "LookupWidgetFactory" -> LookupInit(cls, column, d)
      [] OTHER -> BaseInit(cls, column)

\* The result of format_column_value: the outcome, the instance afterwards
\* (its cache may have grown) and the number of single-row lookups issued.
Formatted(out, inst, lookups) == [out |-> out, inst |-> inst, lookups |-> lookups]

\* value.strftime('%x') / value.strftime('%c')
Strftime(value, fmt) ==
    IF value.k \in {"date", "datetime"}
    THEN Return(PyStr(fmt \o ":" \o IntToStr(value.i)))
    ELSE Raise("AttributeError")

\* ColumnWidgetRegistry.format_column_value (TextWidgetFactory inherits it)
BaseFormat(inst, value) == Formatted(Return(PyStr(Unicode(value))), inst, 0)

\* VarCharWidgetFactory.format_column_value
VarCharFormat(inst, value) ==
    IF value = PyNone THEN Formatted(Return(PyStr("")), inst, 0) ELSE BaseFormat(inst, value)

\* DateWidgetFactory.format_column_value
DateFormat(inst, value) ==
    IF value # PyNone
    THEN Formatted(Strftime(value, "%x"), inst, 0)
    ELSE Formatted(Return(PyStr("")), inst, 0)

\* DateTimeWidgetFactory.format_column_value
DateTimeFormat(inst, value) ==
    IF value # PyNone
    THEN Formatted(Strftime(value, "%c"), inst, 0)
    ELSE Formatted(Return(PyStr("")), inst, 0)

\* IntegerWidgetFactory.format_column_value: no return statement is reached
\* for None, so the call returns None
IntegerFormat(inst, value) ==
    IF value # PyNone
    THEN Formatted(Return(PyStr(Unicode(value))), inst, 0)
    ELSE Formatted(Return(PyNone), inst, 0)

\* DoubleWidgetFactory.format_column_value (PercentWidgetFactory inherits it)
DoubleFormat(inst, value) ==
    IF value # PyNone
    THEN Formatted(Return(PyStr(Unicode(value))), inst, 0)
    ELSE Formatted(Return(PyStr("")), inst, 0)

\* BooleanWidgetFactory.format_column_value
BooleanFormat(inst, value) ==
    IF value = PyNone THEN Formatted(Return(PyStr("")), inst, 0)
    ELSE IF Truthy(value)
    THEN Formatted(Return(PyStr(Translate("EntityBrowser", "Yes"))), inst, 0)
    ELSE Formatted(Return(PyStr(Translate("EntityBrowser", "No"))), inst, 0)

\* RelatedEntityLineEdit.process_display(column, rec): the values of the
\* record's display columns joined by a space (one display column here)
process_display(column, rec) == rec.name

\* RelatedEntityWidgetFactory.format_column_value
RelatedEntityFormat(inst, value, d) ==
    IF InCache(inst.cache, value)
    THEN Formatted(Return(PyStr(process_display(inst.column, inst.cache[value.i]))), inst, 0)
    ELSE LET rec == QueryFirst(d, inst.column.ref, value) IN
         IF rec = NoRow
         THEN Formatted(Return(PyStr("")), inst, 1)
         ELSE Formatted(Return(PyStr(process_display(inst.column, rec))),
                        [inst EXCEPT !.cache[rec.id] = rec], 1)

\* u'{0} ({1})'.format(name, code) when the code is not empty
NameCode(name, code) == IF code # "" THEN name \o " (" \o code \o ")" ELSE name

\* AdministrativeUnitWidgetFactory.format_column_value: a cached entry is
\* indexed as a list (nc[0], nc[1]); a cache miss stores the row object itself
AdministrativeUnitFormat(inst, value, d) ==
    IF InCache(inst.cache, value)
    THEN LET nc == inst.cache[value.i] IN
         IF nc.shape = "list"
         THEN Formatted(Return(PyStr(NameCode(nc.name, nc.code))), inst, 0)
         ELSE Formatted(Raise("TypeError"), inst, 0)
    ELSE LET res == QueryFirst(d, inst.column.ref, value) IN
         IF res = NoRow
         THEN Formatted(Return(PyStr("")), inst, 1)
         ELSE Formatted(Return(PyStr(NameCode(res.name, res.code))),
                        [inst EXCEPT !.cache[res.id] = res], 1)

\* LookupWidgetFactory.code_value: the (value, code) of a cached id or None
code_value(inst, id) ==
    IF InCache(inst.cache, id) THEN inst.cache[id.i] ELSE NoEntry

\* LookupWidgetFactory.format_column_value
LookupFormat(inst, value) ==
    LET cd_val == code_value(inst, value) IN
    IF cd_val = NoEntry
    THEN Formatted(Return(PyStr("")), inst, 0)
    ELSE Formatted(Return(PyStr(NameCode(cd_val.name, cd_val.code))), inst, 0)

\* MultipleSelectWidgetFactory.SEPARATOR
SEPARATOR == "; "

RECURSIVE JoinEach(_, _)
\* a join that writes the separator after every item
JoinEach(sep, items) ==
    IF items = <<>> THEN ""
    ELSE items[1] \o sep \o JoinEach(sep, Tail(items))

RECURSIVE Join(_, _)
\* sep.join(items)
Join(sep, items) ==
    IF items = <<>> THEN ""
    ELSE IF Len(items) = 1 THEN items[1]
    ELSE items[1] \o sep \o Join(sep, Tail(items))

\* MultipleSelectWidgetFactory.format_column_value: len(value) raises for a
\* value that has no length
MultipleSelectFormat(inst, value) ==
    IF value.k \notin {"list", "str"} THEN Formatted(Raise("TypeError"), inst, 0)
    ELSE IF value.k = "str" THEN
         (IF value.s = "" THEN Formatted(Return(PyStr("")), inst, 0)
                          ELSE Formatted(Raise("AttributeError"), inst, 0))
    ELSE IF Len(value.l) = 0 THEN Formatted(Return(PyStr("")), inst, 0)
    ELSE Formatted(Return(PyStr(Join(SEPARATOR, value.l))), inst, 0)

\* inst.format_column_value(value): the method the instance's class resolves to
format_column_value(inst, value, d) ==
    CASE FormatOwner(inst.cls) = "VarCharWidgetFactory" -> VarCharFormat(inst, value)
      [] FormatOwner(inst.cls) = "DateWidgetFactory" -> DateFormat(inst, value)
      [] FormatOwner(inst.cls) = "DateTimeWidgetFactory" -> DateTimeFormat(inst, value)
      [] FormatOwner(inst.cls) = "IntegerWidgetFactory" -> IntegerFormat(inst, value)
      [] FormatOwner(inst.cls) = "DoubleWidgetFactory" -> DoubleFormat(inst, value)
      [] FormatOwner(inst.cls) = "BooleanWidgetFactory" -> BooleanFormat(inst, value)
      [] FormatOwner(inst.cls) = "RelatedEntityWidgetFactory" -> RelatedEntityFormat(inst, value, d)
      [] FormatOwner(inst.cls) = "AdministrativeUnitWidgetFactory" -> AdministrativeUnitFormat(inst, value, d)
      [] FormatOwner(inst.cls) = "LookupWidgetFactory" -> LookupFormat(inst, value)
      [] FormatOwner(inst.cls) = "MultipleSelectWidgetFactory" -> MultipleSelectFormat(inst, value)
      [] OTHER -> BaseFormat(inst, value)

-----------------------------------------------------------------------------
(* Widgets: _create_widget, _widget_configuration and create *)

\* A widget of the GUI toolkit: its class, object name, range, suffix and,
\* for a combo box, the ids of its items.
Widget(kind, objectName, minimum, maximum, items) ==
    [kind |-> kind, objectName |-> objectName, minimum |-> minimum,
     maximum |-> maximum, suffix |-> "", items |-> items]

NoWidget == Widget("None", "", 0, 0, {})

\* u'{0}_{1}'.format(cls._TYPE_PREFIX, c.name)
ObjectName(cls, c) == _TYPE_PREFIX(cls) \o "_" \o c.name

\* The outcome of _create_widget or create: a widget, None or an exception.
Made(w) == [kind |-> "return", widget |-> w, exc |-> ""]
MadeNone == [kind |-> "return", widget |-> NoWidget, exc |-> ""]
NotMade(e) == [kind |-> "raise", widget |-> NoWidget, exc |-> e]

\* the class whose _create_widget a class uses
CreateOwner(cls) ==
    CASE cls = DerivedVarCharFactory -> "VarCharWidgetFactory"
      [] cls = "PercentWidgetFactory" -> "DoubleWidgetFactory"
      [] OTHER -> cls

\* LookupWidgetFactory._create_widget: builds an instance of the class to get
\* the lookups, so it fails when the constructor does
LookupCreateWidget(cls, c, d) ==
    LET cls_obj == Construct(cls, c, d) IN
    IF cls_obj.kind = "raise" THEN NotMade(cls_obj.exc)
    ELSE Made(Widget("QComboBox", ObjectName(cls, c), 0, 0,
                     {id \in Ids : cls_obj.inst.cache[id].shape # "absent"}))

\* cls._create_widget(c, parent)
_create_widget(cls, c, d) ==
    CASE CreateOwner(cls) = "ColumnWidgetRegistry" -> NotMade("NotImplementedError")
      [] CreateOwner(cls) = "VarCharWidgetFactory" ->
             Made(Widget("QLineEdit", ObjectName(cls, c), 0, c.maximum, {}))
      [] CreateOwner(cls) = "TextWidgetFactory" ->
             Made(Widget("QTextEdit", ObjectName(cls, c), 0, 0, {}))
      [] CreateOwner(cls) = "DateWidgetFactory" ->
             Made(Widget("QDateEdit", ObjectName(cls, c), c.minimum, c.maximum, {}))
      [] CreateOwner(cls) = "DateTimeWidgetFactory" ->
             Made(Widget("QDateTimeEdit", ObjectName(cls, c), c.minimum, c.maximum, {}))
      [] CreateOwner(cls) = "IntegerWidgetFactory" ->
             Made(Widget("QSpinBox", ObjectName(cls, c), c.minimum, c.maximum, {}))
      [] CreateOwner(cls) = "DoubleWidgetFactory" ->
             Made(Widget("QDoubleSpinBox", ObjectName(cls, c), c.minimum, c.maximum, {}))
      [] CreateOwner(cls) = "BooleanWidgetFactory" ->
             Made(Widget("QCheckBox", ObjectName(cls, c), 0, 0, {}))
      [] CreateOwner(cls) = "RelatedEntityWidgetFactory" ->
             Made(Widget("RelatedEntityLineEdit", ObjectName(cls, c), 0, 0, {}))
      [] CreateOwner(cls) = "AdministrativeUnitWidgetFactory" ->
             Made(Widget("AdministrativeUnitLineEdit", ObjectName(cls, c), 0, 0, {}))
      [] CreateOwner(cls) = "LookupWidgetFactory" -> LookupCreateWidget(cls, c, d)
      [] CreateOwner(cls) = "MultipleSelectWidgetFactory" ->
             Made(Widget("MultipleSelectTreeView", ObjectName(cls, c), 0, 0, {}))

\* cls._widget_configuration(widget, c): only the percent factory overrides
\* the default, which does nothing
_widget_configuration(cls, widget, c) ==
    IF cls = "PercentWidgetFactory" THEN [widget EXCEPT !.suffix = " %"] ELSE widget

\* The result of create: its outcome and the factory methods it called.
Created(out, calls) == [out |-> out, calls |-> calls]

\* the mutant of create: the factory is used without the check for None
createUnchecked(reg, c, d) ==
    LET f == factory(reg, c.TYPE_INFO) IN
    IF f = NoneCls THEN Created(NotMade("AttributeError"), <<>>)
    ELSE LET w == _create_widget(f, c, d) IN
         IF w.kind = "raise"
         THEN Created(w, <<"_create_widget">>)
         ELSE Created(Made(_widget_configuration(f, w.widget, c)),
                      <<"_create_widget", "_widget_configuration">>)

\* ColumnWidgetRegistry.create (classmethod)
create(reg, c, d) ==
    LET f == factory(reg, c.TYPE_INFO) IN
    IF f # NoneCls
    THEN LET w == _create_widget(f, c, d) IN
         IF w.kind = "raise"
         THEN Created(w, <<"_create_widget">>)
         ELSE Created(Made(_widget_configuration(f, w.widget, c)),
                      <<"_create_widget", "_widget_configuration">>)
    ELSE Created(MadeNone, <<>>)

-----------------------------------------------------------------------------
(* EntityValueFormatter *)

\* "no entity": EntityValueFormatter.entity when the formatter is not bound
NoneEntity == "None"

\* the entity of the current profile the formatter is bound to
Household == "household"

\* The columns of the entity, by name.  "owner" is a foreign key whose parent
\* entity is not set, and "region", "status" and "crops" are an
\* administrative-unit, a lookup and a multiple-select column whose referenced
\* entity is not set; "geom" is of a column type no factory registers for.
EntityColumns ==
    [name \in {"name", "age", "parent", "owner", "unit", "gender", "geom",
               "region", "status", "crops"} |->
        CASE name = "name" -> Col(name, "VARCHAR", NoneRef)
          [] name = "age" -> Col(name, "INT", NoneRef)
          [] name = "parent" -> Col(name, "FOREIGN_KEY", "parent")
          [] name = "owner" -> Col(name, "FOREIGN_KEY", NoneRef)
          [] name = "unit" -> Col(name, "ADMIN_SPATIAL_UNIT", "admin_spatial_unit")
          [] name = "gender" -> Col(name, "LOOKUP", "value_list")
          [] name = "region" -> Col(name, "ADMIN_SPATIAL_UNIT", NoneRef)
          [] name = "status" -> Col(name, "LOOKUP", NoneRef)
          [] name = "crops" -> Col(name, "MULTIPLE_SELECT", NoneRef)
          [] name = "geom" -> Col(name, BaseColumnTag, NoneRef)]

\* the names callers pass: the entity's columns and one that does not exist
Names == DOMAIN EntityColumns \cup {"missing"}

\* "no column": the None entity.column(name) returns for an unknown name
NoColumn == Col("", "None", NoneRef)

\* entity.column(name)
column(ent, name) ==
    IF name \in DOMAIN EntityColumns THEN EntityColumns[name] ELSE NoColumn

\* The result of register_column / register_columns: the outcome, the
\* registered-columns mapping and the instances afterwards, and the outcome
\* of each register_column call made.
Registration(out, cols, hp, results) ==
    [out |-> out, cols |-> cols, heap |-> hp, results |-> results]

\* a mutant of register_column: the check for a registered name is missing
register_columnNoDuplicateCheck(ent, cols, hp, reg, d, name) ==
    IF ent = NoneEntity THEN Registration(Return(PyBool(FALSE)), cols, hp, <<>>)
    ELSE LET c == column(ent, name) IN
         IF c = NoColumn THEN Registration(Return(PyBool(FALSE)), cols, hp, <<>>)
         ELSE LET value_handler_cls == factory(reg, c.TYPE_INFO) IN
              IF value_handler_cls = NoneCls
              THEN Registration(Raise("TypeError"), cols, hp, <<>>)
              ELSE LET value_handler == Construct(value_handler_cls, c, d) IN
                   IF value_handler.kind = "raise"
                   THEN Registration(Raise(value_handler.exc), cols, hp, <<>>)
                   ELSE Registration(Return(PyBool(TRUE)),
                            [n \in DOMAIN cols \cup {name} |->
                                IF n = name THEN Len(hp) + 1 ELSE cols[n]],
                            Append(hp, value_handler.inst), <<>>)

\* a mutant of register_column: the handler is stored before the check for a
\* registered name, so a duplicate replaces the handler and then reports failure
register_columnStoreFirst(ent, cols, hp, reg, d, name) ==
    IF ent = NoneEntity THEN Registration(Return(PyBool(FALSE)), cols, hp, <<>>)
    ELSE LET c == column(ent, name) IN
         IF c = NoColumn THEN Registration(Return(PyBool(FALSE)), cols, hp, <<>>)
         ELSE LET value_handler_cls == factory(reg, c.TYPE_INFO) IN
              IF value_handler_cls = NoneCls
              THEN Registration(Raise("TypeError"), cols, hp, <<>>)
              ELSE LET value_handler == Construct(value_handler_cls, c, d) IN
                   IF value_handler.kind = "raise"
                   THEN Registration(Raise(value_handler.exc), cols, hp, <<>>)
                   ELSE Registration(Return(PyBool(name \notin DOMAIN cols)),
                            [n \in DOMAIN cols \cup {name} |->
                                IF n = name THEN Len(hp) + 1 ELSE cols[n]],
                            Append(hp, value_handler.inst), <<>>)

\* EntityValueFormatter.register_column: calling the None that factory()
\* returns for an unregistered tag raises TypeError
register_column(ent, cols, hp, reg, d, name) ==
    IF ent = NoneEntity THEN Registration(Return(PyBool(FALSE)), cols, hp, <<>>)
    ELSE IF name \in DOMAIN cols THEN Registration(Return(PyBool(FALSE)), cols, hp, <<>>)
    ELSE LET c == column(ent, name) IN
         IF c = NoColumn THEN Registration(Return(PyBool(FALSE)), cols, hp, <<>>)
         ELSE LET value_handler_cls == factory(reg, c.TYPE_INFO) IN
              IF value_handler_cls = NoneCls
              THEN Registration(Raise("TypeError"), cols, hp, <<>>)
              ELSE LET value_handler == Construct(value_handler_cls, c, d) IN
                   IF value_handler.kind = "raise"
                   THEN Registration(Raise(value_handler.exc), cols, hp, <<>>)
                   ELSE Registration(Return(PyBool(TRUE)),
                            [n \in DOMAIN cols \cup {name} |->
                                IF n = name THEN Len(hp) + 1 ELSE cols[n]],
                            Append(hp, value_handler.inst), <<>>)

RECURSIVE RegisterLoop(_, _, _, _, _, _)
\* the loop of register_columns from the i-th name on, `acc` holding the
\* state so far; an exception of register_column ends the loop
RegisterLoop(ent, reg, d, columns, i, acc) ==
    IF i > Len(columns) THEN acc
    ELSE LET r == register_column(ent, acc.cols, acc.heap, reg, d, columns[i]) IN
         IF r.out.kind = "raise"
         THEN Registration(r.out, r.cols, r.heap, Append(acc.results, r.out))
         ELSE RegisterLoop(ent, reg, d, columns, i + 1,
                  Registration(r.out, r.cols, r.heap, Append(acc.results, r.out)))

\* the mutant of register_columns: True only if every column was registered
register_columnsAll(ent, cols, hp, reg, d, columns) ==
    LET r == RegisterLoop(ent, reg, d, columns, 1,
                 Registration(Return(PyBool(FALSE)), cols, hp, <<>>)) IN
    IF r.out.kind = "raise" THEN r
    ELSE [r EXCEPT !.out = Return(PyBool(columns # <<>> /\
              \A n \in 1..Len(r.results) : r.results[n] = Return(PyBool(TRUE))))]

\* EntityValueFormatter.register_columns
register_columns(ent, cols, hp, reg, d, columns) ==
    RegisterLoop(ent, reg, d, columns, 1,
        Registration(Return(PyBool(FALSE)), cols, hp, <<>>))

\* The result of column_display_value: the outcome, the instances afterwards
\* and whether the handler's format_column_value was called.
Displayed(out, hp, delegated) == [out |-> out, heap |-> hp, delegated |-> delegated]

\* the mutant of column_display_value: the docstring's empty string for a
\* name that is not registered
column_display_valueEmpty(cols, hp, d, name, value) ==
    IF name \notin DOMAIN cols THEN Displayed(Return(PyStr("")), hp, FALSE)
    ELSE LET f == format_column_value(hp[cols[name]], value, d) IN
         Displayed(f.out, [hp EXCEPT ![cols[name]] = f.inst], TRUE)

\* EntityValueFormatter.column_display_value
column_display_value(cols, hp, d, name, value) ==
    IF name \notin DOMAIN cols THEN Displayed(Return(value), hp, FALSE)
    ELSE LET f == format_column_value(hp[cols[name]], value, d) IN
         Displayed(f.out, [hp EXCEPT ![cols[name]] = f.inst], TRUE)

-----------------------------------------------------------------------------
(* The state machine *)

\* the lists of selected lookup rows, each row given by its display value
Selections == UNION {[1..n -> {"A", "B"}] : n \in 0..MaxSelection}

\* the values a caller formats for a column of the given type: the null
\* value and stored values of the column's type
SampleValues(type_info) ==
    CASE type_info \in {"VARCHAR", "TEXT"} -> {PyNone, PyStr("abc")}
      [] type_info = "DATE" -> {PyNone, PyDate(1)}
      [] type_info = "DATETIME" -> {PyNone, PyDateTime(1)}
      [] type_info = "INT" -> {PyNone, PyInt(7)}
      [] type_info \in {"DOUBLE", "PERCENT"} -> {PyNone, PyFloat(2)}
      [] type_info = "BOOL" -> {PyNone, PyBool(TRUE), PyBool(FALSE)}
      [] type_info \in {"FOREIGN_KEY", "ADMIN_SPATIAL_UNIT", "LOOKUP"} ->
             {PyNone} \cup {PyInt(id) : id \in Ids}
      [] type_info = "MULTIPLE_SELECT" ->
             {PyNone} \cup {PyList(l) : l \in Selections}
      [] OTHER -> {PyNone, PyInt(1), PyStr("abc")}

\* the entity a column of the given type refers to
RefOf(type_info) ==
    CASE type_info = "FOREIGN_KEY" -> "parent"
      [] type_info = "ADMIN_SPATIAL_UNIT" -> "admin_spatial_unit"
      [] type_info \in {"LOOKUP", "MULTIPLE_SELECT"} -> "value_list"
      [] OTHER -> NoneRef

\* the columns widgets are created for: one of each type tag, and relational
\* columns whose referenced entity is not set
WidgetColumns ==
    {Col("c", t, RefOf(t)) : t \in TypeTags} \cup
    {Col("c", t, NoneRef) : t \in {"FOREIGN_KEY", "LOOKUP"}}

\* the classes that call register() after the module is loaded
Registrants ==
    {"ColumnWidgetRegistry", DerivedVarCharFactory, "VarCharWidgetFactory", "LookupWidgetFactory"}

NoCall == [op |-> "none"]

NoColumns == [n \in {} |-> 0]

\* every table holds the row with id 1 when the module is loaded
InitDb == [t \in Tables |-> {1}]

Init ==
    /\ registered_factories = LoadedRegistry
    /\ reg_log = LoadOrder
    /\ db = InitDb
    /\ entity \in {NoneEntity, Household}
    /\ _registered_columns = NoColumns
    /\ heap = <<>>
    /\ last = NoCall

\* cls.register()
Register(cls) ==
    /\ Len(reg_log) < Len(LoadOrder) + MaxRegisterCalls
    /\ registered_factories' = register(registered_factories, cls)
    /\ reg_log' = Append(reg_log, cls)
    /\ last' = [op |-> "register", cls |-> cls]
    /\ UNCHANGED <<db, entity, _registered_columns, heap>>

\* ColumnWidgetRegistry.factory(type_info)
Factory(type_info) ==
    /\ last' = [op |-> "factory", type_info |-> type_info,
                ret |-> factory(registered_factories, type_info),
                before |-> registered_factories]
    /\ UNCHANGED <<registered_factories, reg_log, db, entity, _registered_columns, heap>>

\* ColumnWidgetRegistry.create(c, parent)
Create(c) ==
    /\ LET r == create(registered_factories, c, db) IN
       last' = [op |-> "create", c |-> c, out |-> r.out, calls |-> r.calls]
    /\ UNCHANGED <<registered_factories, reg_log, db, entity, _registered_columns, heap>>

\* formatter.register_column(name)
RegisterColumn(name) ==
    LET r == register_column(entity, _registered_columns, heap, registered_factories, db, name) IN
    /\ Len(r.heap) <= MaxInstances
    /\ _registered_columns' = r.cols
    /\ heap' = r.heap
    /\ last' = [op |-> "register_column", name |-> name, out |-> r.out,
                before |-> [cols |-> _registered_columns, heap |-> heap]]
    /\ UNCHANGED <<registered_factories, reg_log, db, entity>>

\* the name lists of up to MaxColumns names: a plain column, a relational
\* one, one of an unregistered type and one the entity does not have
NameLists == UNION {[1..n -> {"name", "parent", "geom", "missing"}] : n \in 0..MaxColumns}

\* formatter.register_columns(columns)
RegisterColumns(columns) ==
    LET r == register_columns(entity, _registered_columns, heap, registered_factories, db, columns) IN
    /\ Len(r.heap) <= MaxInstances
    /\ _registered_columns' = r.cols
    /\ heap' = r.heap
    /\ last' = [op |-> "register_columns", columns |-> columns, out |-> r.out,
                results |-> r.results,
                before |-> [cols |-> _registered_columns, heap |-> heap]]
    /\ UNCHANGED <<registered_factories, reg_log, db, entity>>

\* formatter.column_display_value(name, value)
ColumnDisplayValue(name, value) ==
    LET r == column_display_value(_registered_columns, heap, db, name, value) IN
    /\ heap' = r.heap
    /\ last' = [op |-> "column_display_value", name |-> name, value |-> value,
                out |-> r.out, delegated |-> r.delegated,
                before |-> [cols |-> _registered_columns, heap |-> heap]]
    /\ UNCHANGED <<registered_factories, reg_log, db, entity, _registered_columns>>

\* a factory class is instantiated for a column of its type: cls(column)
New(cls, c) ==
    LET r == Construct(cls, c, db) IN
    /\ heap = <<>>
    /\ heap' = IF r.kind = "raise" THEN heap ELSE <<r.inst>>
    /\ last' = [op |-> "new", cls |-> cls, c |-> c, kind |-> r.kind, exc |-> r.exc,
                bulk |-> r.bulk]
    /\ UNCHANGED <<registered_factories, reg_log, db, entity, _registered_columns>>

\* instance.format_column_value(value) on the instance constructed
FormatColumnValue(value) ==
    /\ heap # <<>>
    /\ LET r == format_column_value(heap[1], value, db) IN
       /\ heap' = <<r.inst>>
       /\ last' = [op |-> "format_column_value", cls |-> heap[1].cls, value |-> value,
                   out |-> r.out, lookups |-> r.lookups, cached |-> InCache(heap[1].cache, value),
                   found |-> heap[1].column.ref \in Tables
                             /\ QueryFirst(db, heap[1].column.ref, value) # NoRow]
    /\ UNCHANGED <<registered_factories, reg_log, db, entity, _registered_columns>>

\* another session inserts the next row into a referenced table (serial ids)
DbInsert(table) ==
    /\ Cardinality(db[table]) < MaxId
    /\ db' = [db EXCEPT ![table] = @ \cup {Cardinality(@) + 1}]
    /\ last' = [op |-> "db_insert", table |-> table]
    /\ UNCHANGED <<registered_factories, reg_log, entity, _registered_columns, heap>>

\* The formatter: registration and display of an entity's columns.
Next ==
    \/ \E name \in Names : RegisterColumn(name)
    \/ \E columns \in NameLists : RegisterColumns(columns)
    \/ \E name \in Names : \E value \in SampleValues(column(entity, name).TYPE_INFO) :
           ColumnDisplayValue(name, value)

Spec == Init /\ [][Next]_vars

\* The registry: registration, resolution and widget creation.
NextRegistry ==
    \/ \E cls \in Registrants : Register(cls)
    \/ \E type_info \in TypeTags : Factory(type_info)
    \/ \E c \in WidgetColumns : Create(c)

SpecRegistry == Init /\ [][NextRegistry]_vars

\* One factory instance: construction, formatting, and rows inserted meanwhile.
NextFactory ==
    \/ \E cls \in Classes \ {"ColumnWidgetRegistry"} :
         \E ref \in {RefOf(COLUMN_TYPE_INFO(cls)), NoneRef} :
           New(cls, Col("c", COLUMN_TYPE_INFO(cls), ref))
    \/ heap # <<>> /\ \E value \in SampleValues(heap[1].column.TYPE_INFO) :
           FormatColumnValue(value)
    \/ \E table \in Tables : DbInsert(table)

SpecFactory == Init /\ [][NextFactory]_vars

-----------------------------------------------------------------------------
(* Properties of the formatter (checked under Spec) *)

True == Return(PyBool(TRUE))
False == Return(PyBool(FALSE))

\* the classes whose constructor resolves a referenced entity
RelationalClasses ==
    {"RelatedEntityWidgetFactory", "AdministrativeUnitWidgetFactory",
     "LookupWidgetFactory", "MultipleSelectWidgetFactory"}

\* the three cases in which register_column(last.name) reports failure
RegisterColumnRefused ==
    \/ entity = NoneEntity
    \/ column(entity, last.name) = NoColumn
    \/ last.name \in DOMAIN last.before.cols

\* C1 as stated: register_column(name) returns False when the formatter has
\* no entity, the entity has no such column or the name is already
\* registered; in every other case it returns True and the name then maps to
\* an instance of the class the registry holds for the column's type tag.
C1_ReturnsTrueInEveryOtherCase ==
    last.op = "register_column" =>
        IF RegisterColumnRefused
        THEN last.out = False
        ELSE /\ last.out = True
             /\ last.name \in DOMAIN _registered_columns
             /\ heap[_registered_columns[last.name]].cls =
                    factory(registered_factories, column(entity, last.name).TYPE_INFO)

\* C1 as amended: register_column(name) returns False in the three cases; it
\* raises, leaving the mapping as it was, when the registry holds no factory
\* for the column's type tag or when the factory's constructor raises (as
\* RelatedEntityWidgetFactory does for a foreign key whose parent entity is
\* not set); in every other case it returns True and the name then maps to
\* an instance of the registry's class for the column's type tag.
C1_RegisterColumnOutcome ==
    last.op = "register_column" =>
        LET c == column(entity, last.name)
            cls == factory(registered_factories, c.TYPE_INFO) IN
        IF RegisterColumnRefused
        THEN last.out = False
        ELSE IF cls = NoneCls \/ (cls \in RelationalClasses /\ c.ref = NoneRef)
        THEN /\ last.out.kind = "raise"
             /\ _registered_columns = last.before.cols
        ELSE /\ last.out = True
             /\ last.name \in DOMAIN _registered_columns
             /\ _registered_columns[last.name] \in 1..Len(heap)
             /\ heap[_registered_columns[last.name]].cls = cls
             /\ heap[_registered_columns[last.name]].column = c

\* a foreign-key column was registered: it maps to a RelatedEntityWidgetFactory
C1_Witness ==
    /\ last.op = "register_column"
    /\ last.out = True
    /\ last.name = "parent"
    /\ heap[_registered_columns["parent"]].cls = "RelatedEntityWidgetFactory"

\* C2: a register_column call that returns False leaves the registered-columns
\* mapping unchanged; registering a registered name again returns False and
\* the name still maps to the same handler instance, with its cache.
C2_FailedRegistrationChangesNothing ==
    last.op = "register_column" =>
        /\ last.out = False =>
               /\ _registered_columns = last.before.cols
               /\ heap = last.before.heap
        /\ last.name \in DOMAIN last.before.cols =>
               /\ last.out = False
               /\ _registered_columns[last.name] = last.before.cols[last.name]
               /\ heap[_registered_columns[last.name]] =
                      last.before.heap[last.before.cols[last.name]]

\* a relational column, whose handler holds a cache, was registered a second time
C2_Witness ==
    /\ last.op = "register_column"
    /\ last.name = "unit"
    /\ last.name \in DOMAIN last.before.cols
    /\ last.out = False
    /\ heap[_registered_columns["unit"]].cache[1].shape = "list"

\* the names of `columns` whose register_column call returned True
Succeeded(columns, results) ==
    {columns[n] : n \in {m \in 1..Len(results) : results[m] = True}}

C4_TrueOnlyIfAllRegistered ==
    (last.op = "register_columns" /\ last.out.kind = "return" /\ last.columns # <<>>) =>
        (last.out = True <=>
            /\ Len(last.results) = Len(last.columns)
            /\ \A n \in 1..Len(last.results) : last.results[n] = True)

C9_UnregisteredTypeIsSoftFailure ==
    (/\ last.op = "register_column"
     /\ entity # NoneEntity
     /\ column(entity, last.name) # NoColumn
     /\ factory(registered_factories, column(entity, last.name).TYPE_INFO) = NoneCls) =>
        /\ last.out = False
        /\ _registered_columns = last.before.cols

-----------------------------------------------------------------------------
(* Properties of the registry (checked under SpecRegistry) *)

\* the class that called register() last among those with the given tag
LastRegistered(log, type_info) ==
    LET calls == {n \in 1..Len(log) : COLUMN_TYPE_INFO(log[n]) = type_info} IN
    IF calls = {} THEN NoneCls
    ELSE log[CHOOSE n \in calls : \A m \in calls : m <= n]

\* C6: after any sequence of register() calls the registry maps each type
\* tag to at most one class; factory(tag) returns the class that registered
\* last with that tag and None for a tag no class registered; factory()
\* does not change the registry.
C6_LastRegistrationWins ==
    /\ \A type_info \in TypeTags :
           /\ Cardinality({n \in 1..Len(registered_factories) :
                              registered_factories[n].key = type_info}) <= 1
           /\ factory(registered_factories, type_info) = LastRegistered(reg_log, type_info)
    /\ last.op = "factory" =>
           /\ last.ret = LastRegistered(reg_log, last.type_info)
           /\ registered_factories = last.before

\* a subclass registered with the tag of VarCharWidgetFactory after it, and
\* factory() returns the subclass
C6_Witness ==
    /\ last.op = "factory"
    /\ last.type_info = "VARCHAR"
    /\ last.ret = DerivedVarCharFactory
    /\ factory(registered_factories, BaseColumnTag) = NoneCls

\* C7: create(column, parent) returns None for a column whose type tag has
\* no registered factory, without raising and without building or
\* configuring a widget; with a factory registered it calls the factory's
\* _create_widget, then its _widget_configuration on the widget created, and
\* returns that widget.
C7_CreateDispatch ==
    last.op = "create" =>
        LET f == factory(registered_factories, last.c.TYPE_INFO) IN
        IF f = NoneCls
        THEN last.out = MadeNone /\ last.calls = <<>>
        ELSE /\ last.calls # <<>>
             /\ last.calls[1] = "_create_widget"
             /\ last.out.kind = "raise" =>
                    /\ last.calls = <<"_create_widget">>
                    /\ _create_widget(f, last.c, db).kind = "raise"
             /\ last.out.kind = "return" =>
                    /\ last.calls = <<"_create_widget", "_widget_configuration">>
                    /\ last.out.widget # NoWidget
                    /\ last.out.widget.objectName = ObjectName(f, last.c)
                    /\ last.out.widget =
                           _widget_configuration(f, _create_widget(f, last.c, db).widget, last.c)

\* create was called for a column of a type no factory registers for
C7_Witness ==
    /\ last.op = "create"
    /\ last.c.TYPE_INFO = BaseColumnTag
    /\ last.out = MadeNone
    /\ last.calls = <<>>

-----------------------------------------------------------------------------
(* Properties of one factory instance (checked under SpecFactory) *)

\* C8: for every registered factory type format_column_value(None) returns
\* the empty string; the boolean factory returns 'No' only for an explicit
\* false, never for the null value.
C8_NoneFormatsToEmptyString ==
    last.op = "format_column_value" =>
        /\ last.value = PyNone => last.out = Return(PyStr(""))
        /\ (last.cls = "BooleanWidgetFactory" /\ last.out = Return(PyStr("No"))) =>
               last.value = PyBool(FALSE)

\* the factories that keep a cache of referenced rows and format a row id
CachingClasses ==
    {"LookupWidgetFactory", "RelatedEntityWidgetFactory", "AdministrativeUnitWidgetFactory"}

\* C10: for the lookup, foreign-key and administrative-unit factories,
\* formatting an id that is in the instance's cache performs no single-row
\* lookup; formatting an id that is not in the cache performs exactly one
\* and, when a row is found, the id is in the cache afterwards; formatting
\* an id with no matching row returns the empty string.
C10_OneLookupPerCacheMiss ==
    (/\ last.op = "format_column_value"
     /\ last.cls \in CachingClasses
     /\ last.value.k = "int") =>
        /\ last.cached => last.lookups = 0
        /\ ~last.cached =>
               /\ last.lookups = 1
               /\ last.found => InCache(heap[1].cache, last.value)
               /\ ~last.found => last.out = Return(PyStr(""))

RECURSIVE C11_Expected(_, _)
\* the first n of the display values, each one after the first preceded by
\* the two characters "; "
C11_Expected(values, n) ==
    IF n = 0 THEN ""
    ELSE IF n = 1 THEN values[1]
    ELSE C11_Expected(values, n - 1) \o "; " \o values[n]

\* C11: MultipleSelectWidgetFactory.format_column_value of a list of rows
\* returns their display values in list order joined by "; ": the empty
\* string for the empty list, the value alone for one row, "A; B" for rows A
\* and B; and it changes nothing in the instance and asks the database nothing.
C11_MultipleSelectJoins ==
    (/\ last.op = "format_column_value"
     /\ last.cls = "MultipleSelectWidgetFactory"
     /\ last.value.k = "list")
    => /\ last.out = Return(PyStr(C11_Expected(last.value.l, Len(last.value.l))))
       /\ last.value.l = <<>> => last.out = Return(PyStr(""))
       /\ last.value.l = <<"A">> => last.out = Return(PyStr("A"))
       /\ last.value.l = <<"A", "B">> => last.out = Return(PyStr("A; B"))
       /\ last.value.l = <<"B", "A">> => last.out = Return(PyStr("B; A"))
       /\ last.lookups = 0

\* two rows have been formatted: the separator stands between them
C11_Witness ==
    /\ last.op = "format_column_value"
    /\ last.cls = "MultipleSelectWidgetFactory"
    /\ last.value = PyList(<<"A", "B">>)
    /\ last.out = Return(PyStr("A; B"))

\* C12: constructing a relational factory (foreign-key, administrative-unit,
\* lookup, multiple-select) for a column whose referenced entity is not set
\* raises before a bulk query is issued and before a cache entry is written;
\* no instance comes to exist, and the register_column call that constructed
\* it ends with that exception and leaves the name unregistered and every
\* registered handler as it was.
C12_UnresolvedEntityFailsFast ==
    (/\ last.op = "register_column"
     /\ ~RegisterColumnRefused
     /\ factory(registered_factories, column(entity, last.name).TYPE_INFO) \in RelationalClasses
     /\ column(entity, last.name).ref = NoneRef)
    => LET c == column(entity, last.name)
           r == Construct(factory(registered_factories, c.TYPE_INFO), c, db)
       IN /\ r.kind = "raise"
          /\ r.bulk = 0
          /\ r.inst = NoInstance
          /\ r.inst.cache = EmptyCache
          /\ last.out = Raise(r.exc)
          /\ _registered_columns = last.before.cols
          /\ last.name \notin DOMAIN _registered_columns
          /\ heap = last.before.heap

\* with "parent" registered, register_column("owner") has raised: the foreign
\* key's parent entity is not set
C12_Witness ==
    /\ last.op = "register_column"
    /\ last.name = "owner"
    /\ last.out = Raise("WidgetException")
    /\ "parent" \in DOMAIN _registered_columns
    /\ "owner" \notin DOMAIN _registered_columns

\* C13: in an AdministrativeUnitWidgetFactory instance every cache entry is a
\* [name, code] pair like the entries preloaded at construction, whatever
\* format_column_value calls were made; so formatting an id that is in the
\* cache, also one that an earlier cache miss put there, returns 'name (code)'
\* when the row's code is not empty and 'name' otherwise, without a lookup.
C13_CacheEntriesKeepShape ==
    (heap # <<>> /\ heap[1].cls = "AdministrativeUnitWidgetFactory")
    => /\ \A id \in Ids : heap[1].cache[id].shape \in {"absent", "list"}
       /\ (/\ last.op = "format_column_value"
           /\ last.value.k = "int"
           /\ last.cached)
          => LET r == Row(heap[1].column.ref, last.value.i) IN
             /\ last.out = Return(PyStr(NameCode(r.name, r.code)))
             /\ last.lookups = 0

====
